---------------------------- MODULE Spec2Model ----------------------------
(***************************************************************************)
(* Smoothed-aggregation setup kernels of                                   *)
(* src/templates/example_pyamg_smoothed_aggregation.h, each modelled as a  *)
(* state machine over its flat CSR/BSR arrays.  Arrays are 0-based, as in  *)
(* the source: an array of length n is a function on 0..n-1.               *)
(***************************************************************************)
EXTENDS Integers, Sequences, FiniteSets, TLC

(***************************************************************************)
(* Bounds of the model.                                                    *)
(***************************************************************************)
\* largest number of nodes of an aggregation input graph
MaxNodes == 3
\* largest number of rows / of stored entries of a strength-of-connection input
StrMaxRows == 2
StrMaxNnz == 4
\* largest number of stored blocks of A, B and S together in an incomplete product
MMMaxEntries == 6
\* largest number of stored entries under a row pointer that need not be monotone
RawMaxNnz == 2
\* largest number of candidates, of block rows and of block columns of a calc_BtB input
BtBMaxNullDim == 2
BtBMaxNodes == 2
BtBMaxCols == 2
\* largest number of entries of the candidate array of a fit_candidates_common input
FitMaxEntries == 4
\* largest number of block rows of a satisfy_constraints_helper input
SCMaxRows == 2

VARIABLES
    pc,              \* position of the running kernel
    i,               \* index of the kernel's outer loop
    n_row,           \* number of rows (nodes)
    Ap, Aj,          \* CSR row pointer and column indices of A
    x, y,            \* aggregation outputs: labels and roots
    next_aggregate,  \* aggregation counter
    ret,             \* returned value
    x_pass2,         \* history: x as pass 2 of standard_aggregation left it
    pass3_id,        \* history: node -> aggregate it was first given in pass 3, or -1
    Ax,              \* data array of A
    theta,           \* strength of connection tolerance
    diags,           \* norms of the diagonal values
    nnz,             \* number of entries written to S
    Sp, Sj, Sx,      \* row pointer, column indices and data array of S
    Bp, Bj, Bx,      \* row pointer, column indices and data array of B
    n_brow, n_bcol,  \* number of block rows of A, of block columns of S
    brow_A, bcol_A, bcol_B,  \* block sizes
    S,               \* incomplete_mat_mult_bsr: column -> place in Sx, or NULL
    Sx_entry,        \* history: Sx as it was when the kernel was called
    NullDim, Nnodes, ColsPerBlock,  \* calc_BtB: sizes
    Bsq, BsqCols,    \* calc_BtB: packed products of the candidates, its row length
    BtB,             \* calc_BtB: output blocks
    BtB_entry,       \* history: BtB as it was when the kernel was called
    n_col, K1, K2,   \* fit_candidates_common: sizes
    Ai,              \* fit_candidates_common: index array
    B, R,            \* fit_candidates_common: fine and coarse candidates
    tol,             \* fit_candidates_common: drop tolerance
    RowsPerBlock, num_block_rows,  \* satisfy_constraints_helper: sizes
    Bt, UB, BtBinv   \* satisfy_constraints_helper: the arrays x, y and z

aggHist == <<x_pass2, pass3_id>>
aggVars == <<n_row, Ap, Aj, x, y, next_aggregate, ret, aggHist>>
strVars == <<Ax, theta, diags, nnz, Sp, Sj, Sx>>
mmVars == <<Bp, Bj, Bx, n_brow, n_bcol, brow_A, bcol_A, bcol_B, S, Sx_entry>>

btbVars == <<NullDim, Nnodes, ColsPerBlock, Bsq, BsqCols, BtB, BtB_entry>>
fitVars == <<n_col, K1, K2, Ai, B, R, tol>>
scVars == <<RowsPerBlock, num_block_rows, Bt, UB, BtBinv>>

vars == <<pc, i, aggVars, strVars, mmVars, btbVars, fitVars, scVars>>

\* the variables the aggregation kernels leave alone
aggIdle == <<strVars, mmVars, btbVars, fitVars, scVars>>

\* the variables a kernel does not use keep these values
StrParked ==
    /\ Ax = <<>>
    /\ theta = 0
    /\ diags = <<>>
    /\ nnz = 0
    /\ Sp = <<>>
    /\ Sj = <<>>
    /\ Sx = <<>>

MMParked ==
    /\ Bp = <<>>
    /\ Bj = <<>>
    /\ Bx = <<>>
    /\ n_brow = 0
    /\ n_bcol = 0
    /\ brow_A = 0
    /\ bcol_A = 0
    /\ bcol_B = 0
    /\ S = <<>>
    /\ Sx_entry = <<>>

BtBParked ==
    /\ NullDim = 0
    /\ Nnodes = 0
    /\ ColsPerBlock = 0
    /\ Bsq = <<>>
    /\ BsqCols = 0
    /\ BtB = <<>>
    /\ BtB_entry = <<>>

FitParked ==
    /\ n_col = 0
    /\ K1 = 0
    /\ K2 = 0
    /\ Ai = <<>>
    /\ B = <<>>
    /\ R = <<>>
    /\ tol = <<0, 1, 1>>

SCParked ==
    /\ RowsPerBlock = 0
    /\ num_block_rows = 0
    /\ Bt = <<>>
    /\ UB = <<>>
    /\ BtBinv = <<>>

AggIdleInit == StrParked /\ MMParked /\ BtBParked /\ FitParked /\ SCParked

\* the variables symmetric_strength_of_connection leaves alone
strIdle == <<x, y, next_aggregate, ret, aggHist, mmVars, btbVars, fitVars, scVars>>

AggParked ==
    /\ x = <<>>
    /\ y = <<>>
    /\ next_aggregate = 0
    /\ ret = -1
    /\ x_pass2 = <<>>
    /\ pass3_id = <<>>

StrIdleInit == AggParked /\ MMParked /\ BtBParked /\ FitParked /\ SCParked

\* the variables incomplete_mat_mult_bsr leaves alone
mmIdle == <<n_row, x, y, next_aggregate, ret, aggHist, theta, diags, nnz, btbVars, fitVars, scVars>>

MMIdleInit ==
    /\ AggParked
    /\ n_row = 0
    /\ theta = 0
    /\ diags = <<>>
    /\ nnz = 0
    /\ BtBParked
    /\ FitParked
    /\ SCParked

\* the variables calc_BtB leaves alone
btbIdle ==
    <<n_row, Ap, Aj, x, y, next_aggregate, ret, aggHist, Ax, theta, diags, nnz, Sx, mmVars, fitVars,
      scVars>>

BtBIdleInit ==
    /\ AggParked
    /\ n_row = 0
    /\ Ap = <<>>
    /\ Aj = <<>>
    /\ Ax = <<>>
    /\ theta = 0
    /\ diags = <<>>
    /\ nnz = 0
    /\ Sx = <<>>
    /\ MMParked
    /\ FitParked
    /\ SCParked

\* the variables satisfy_constraints_helper leaves alone
scIdle ==
    <<aggVars, Ax, theta, diags, nnz, Bp, Bj, Bx, n_brow, n_bcol, brow_A, bcol_A, bcol_B, S,
      Nnodes, Bsq, BsqCols, BtB, BtB_entry, fitVars>>

SCIdleInit ==
    /\ AggParked
    /\ n_row = 0
    /\ Ap = <<>>
    /\ Aj = <<>>
    /\ Ax = <<>>
    /\ theta = 0
    /\ diags = <<>>
    /\ nnz = 0
    /\ Bp = <<>>
    /\ Bj = <<>>
    /\ Bx = <<>>
    /\ n_brow = 0
    /\ n_bcol = 0
    /\ brow_A = 0
    /\ bcol_A = 0
    /\ bcol_B = 0
    /\ S = <<>>
    /\ Nnodes = 0
    /\ Bsq = <<>>
    /\ BsqCols = 0
    /\ BtB = <<>>
    /\ BtB_entry = <<>>
    /\ FitParked

\* the variables fit_candidates_common leaves alone
fitIdle ==
    <<Aj, x, y, next_aggregate, ret, aggHist, theta, diags, nnz, Sp, Sj, Sx, mmVars, btbVars, scVars>>

FitIdleInit ==
    /\ AggParked
    /\ Aj = <<>>
    /\ theta = 0
    /\ diags = <<>>
    /\ nnz = 0
    /\ Sp = <<>>
    /\ Sj = <<>>
    /\ Sx = <<>>
    /\ MMParked
    /\ BtBParked
    /\ SCParked

(***************************************************************************)
(* Array helpers.                                                          *)
(***************************************************************************)
\* the array holding the elements of sequence s at indices 0..Len(s)-1
ArrayOf(s) == [k \in 0..(Len(s) - 1) |-> s[k + 1]]

\* the ascending enumeration of a finite set of integers
RECURSIVE Ascending(_)
Ascending(vs) ==
    IF vs = {} THEN <<>>
    ELSE LET m == CHOOSE v \in vs : \A w \in vs : v <= w
         IN  <<m>> \o Ascending(vs \ {m})

Reverse(s) == [k \in 1..Len(s) |-> s[Len(s) + 1 - k]]

\* concatenation of rows[0], rows[1], ..., rows[n-1]
RECURSIVE Concat(_, _)
Concat(rows, n) ==
    IF n = 0 THEN <<>> ELSE Concat(rows, n - 1) \o rows[n - 1]

\* CSR row pointer / column indices of the graph whose row r lists rows[r]
RowPtrOf(rows, n) == [r \in 0..n |-> Len(Concat(rows, r))]
ColIdxOf(rows, n) == ArrayOf(Concat(rows, n))

\* the positions jj = Ap[r], ..., Ap[r+1]-1 visited by "for(jj = Ap[r]; jj < Ap[r+1]; jj++)"
RowRange(r) == Ap[r]..(Ap[r + 1] - 1)

\* value a caller-allocated buffer of n_row indices holds before the kernel writes it
Stale(n) == n + 1


(***************************************************************************)
(* standard_aggregation (lines 115-215).                                   *)
(***************************************************************************)
\* line 139: row i_ holds a column other than i_
has_neighbors(i_) == \E jj \in RowRange(i_) : Aj[jj] # i_

\* lines 139-144: row i_ holds a column other than i_ that is already marked
has_aggregated_neighbors(i_) ==
    \E jj \in RowRange(i_) : Aj[jj] # i_ /\ x[Aj[jj]] # 0

\* a mark for isolated nodes taken from the range of the attached labels
MarkInLabelRange == -(n_row \div 2)

\* line 150: the mark of an isolated node
IsolatedMark == -n_row

\* lines 156-158: the columns of row i_
RowCols(i_) == {Aj[jj] : jj \in RowRange(i_)}

\* lines 123-125: std::fill(x, x + n_row, 0); next_aggregate = 1
StdEntry ==
    /\ pc = "std_entry"
    /\ x' = [k \in 0..(n_row - 1) |-> 0]
    /\ next_aggregate' = 1
    /\ i' = 0
    /\ pc' = "pass1"
    /\ UNCHANGED <<n_row, Ap, Aj, y, ret>>
    /\ UNCHANGED aggIdle
    /\ UNCHANGED aggHist

\* lines 128-161: one iteration of the loop of pass 1
Pass1Step ==
    /\ pc = "pass1"
    /\ i < n_row
    /\ IF x[i] # 0
          THEN UNCHANGED <<x, y, next_aggregate>>
          ELSE IF ~has_neighbors(i)
                 THEN /\ x' = [x EXCEPT ![i] = IsolatedMark]
                      /\ UNCHANGED <<y, next_aggregate>>
                 ELSE IF ~has_aggregated_neighbors(i)
                        THEN /\ x' = [k \in 0..(n_row - 1) |->
                                        IF k = i \/ k \in RowCols(i)
                                          THEN next_aggregate ELSE x[k]]
                             /\ y' = [y EXCEPT ![next_aggregate - 1] = i]
                             /\ next_aggregate' = next_aggregate + 1
                        ELSE UNCHANGED <<x, y, next_aggregate>>
    /\ i' = i + 1
    /\ UNCHANGED <<pc, n_row, Ap, Aj, ret>>
    /\ UNCHANGED aggIdle
    /\ UNCHANGED aggHist

\* line 161 -> 165: pass 1 is over
Pass1End ==
    /\ pc = "pass1"
    /\ i >= n_row
    /\ i' = 0
    /\ pc' = "pass2"
    /\ UNCHANGED aggVars
    /\ UNCHANGED aggIdle

\* the positions of row i_ whose column is below i_ and has a positive mark
PositiveBelowAt(i_) == {jj \in RowRange(i_) : x[Aj[jj]] > 0 /\ Aj[jj] < i_}

\* lines 168-176: the positions of row i_ whose column has a positive mark
PositiveAt(i_) == {jj \in RowRange(i_) : x[Aj[jj]] > 0}

\* lines 165-177: one iteration of the loop of pass 2
Pass2Step ==
    /\ pc = "pass2"
    /\ i < n_row
    /\ IF x[i] = 0 /\ PositiveAt(i) # {}
          THEN LET jj == CHOOSE p \in PositiveAt(i) : \A q \in PositiveAt(i) : p <= q
               IN  x' = [x EXCEPT ![i] = -x[Aj[jj]]]
          ELSE UNCHANGED x
    /\ i' = i + 1
    /\ UNCHANGED <<pc, n_row, Ap, Aj, y, next_aggregate, ret>>
    /\ UNCHANGED aggIdle
    /\ UNCHANGED aggHist

\* line 179: next_aggregate--
Pass2End ==
    /\ pc = "pass2"
    /\ i >= n_row
    /\ next_aggregate' = next_aggregate - 1
    /\ i' = 0
    /\ pc' = "pass3"
    /\ x_pass2' = x
    /\ pass3_id' = [k \in 0..(n_row - 1) |-> -1]
    /\ UNCHANGED <<n_row, Ap, Aj, x, y, ret>>
    /\ UNCHANGED aggIdle

\* Decode without the test of line 189 for the mark of an isolated node
DecodeNoSentinel(xi) ==
    IF xi > 0 THEN xi - 1 ELSE -xi - 1

\* lines 187-192: the final label of a node marked xi # 0
Decode(xi) ==
    IF xi > 0 THEN xi - 1
    ELSE IF xi = IsolatedMark THEN -1
    ELSE -xi - 1

\* lines 182-211: one iteration of the loop of pass 3
Pass3Step ==
    /\ pc = "pass3"
    /\ i < n_row
    /\ IF x[i] # 0
          THEN /\ x' = [x EXCEPT ![i] = Decode(x[i])]
               /\ UNCHANGED <<y, next_aggregate, pass3_id>>
          ELSE /\ x' = [k \in 0..(n_row - 1) |->
                          IF k = i \/ (k \in RowCols(i) /\ x[k] = 0)
                            THEN next_aggregate ELSE x[k]]
               /\ y' = [y EXCEPT ![next_aggregate] = i]
               /\ next_aggregate' = next_aggregate + 1
               /\ pass3_id' = [k \in 0..(n_row - 1) |->
                                 IF (k = i \/ (k \in RowCols(i) /\ x[k] = 0)) /\ pass3_id[k] = -1
                                   THEN next_aggregate ELSE pass3_id[k]]
    /\ i' = i + 1
    /\ UNCHANGED <<pc, n_row, Ap, Aj, ret, x_pass2>>
    /\ UNCHANGED aggIdle

\* line 214: return next_aggregate
StdReturn ==
    /\ pc = "pass3"
    /\ i >= n_row
    /\ ret' = next_aggregate
    /\ pc' = "std_done"
    /\ UNCHANGED <<i, n_row, Ap, Aj, x, y, next_aggregate>>
    /\ UNCHANGED aggIdle
    /\ UNCHANGED aggHist

StdNext ==
    \/ StdEntry
    \/ Pass1Step
    \/ Pass1End
    \/ Pass2Step
    \/ Pass2End
    \/ Pass3Step
    \/ StdReturn

\* the rows of the graph whose row r lists the columns cols[r], stored all
\* in ascending or all in descending order
GraphRows(cols, n, descending) ==
    [r \in 0..(n - 1) |->
        IF descending THEN Reverse(Ascending(cols[r])) ELSE Ascending(cols[r])]

\* a call of an aggregation kernel on a well-formed graph of n nodes
GraphInit(n, rows) ==
    /\ n_row = n
    /\ Ap = RowPtrOf(rows, n)
    /\ Aj = ColIdxOf(rows, n)
    /\ x = [k \in 0..(n - 1) |-> Stale(n)]
    /\ y = [k \in 0..(n - 1) |-> Stale(n)]
    /\ next_aggregate = 0
    /\ ret = -1
    /\ x_pass2 = <<>>
    /\ pass3_id = <<>>
    /\ i = 0
    /\ AggIdleInit

StdInit ==
    /\ pc = "std_entry"
    /\ \E n \in 0..MaxNodes, descending \in BOOLEAN :
       \E cols \in [0..(n - 1) -> SUBSET (0..(n - 1))] :
          GraphInit(n, GraphRows(cols, n, descending))

SpecStd == StdInit /\ [][StdNext]_vars


(***************************************************************************)
(* naive_aggregation (lines 238-271).                                      *)
(***************************************************************************)
\* lines 246-248: std::fill(x, x + n_row, 0); next_aggregate = 1
NaiveEntry ==
    /\ pc = "naive_entry"
    /\ x' = [k \in 0..(n_row - 1) |-> 0]
    /\ next_aggregate' = 1
    /\ i' = 0
    /\ pc' = "naive_loop"
    /\ UNCHANGED <<n_row, Ap, Aj, y, ret>>
    /\ UNCHANGED aggIdle
    /\ UNCHANGED aggHist

\* lines 250-268: one iteration of the loop
NaiveStep ==
    /\ pc = "naive_loop"
    /\ i < n_row
    /\ IF x[i] # 0
          THEN UNCHANGED <<x, y, next_aggregate>>
          ELSE /\ x' = [k \in 0..(n_row - 1) |->
                          IF k = i \/ (k \in RowCols(i) /\ x[k] = 0)
                            THEN next_aggregate ELSE x[k]]
               /\ y' = [y EXCEPT ![next_aggregate - 1] = i]
               /\ next_aggregate' = next_aggregate + 1
    /\ i' = i + 1
    /\ UNCHANGED <<pc, n_row, Ap, Aj, ret>>
    /\ UNCHANGED aggIdle
    /\ UNCHANGED aggHist

\* line 270: return (next_aggregate-1)
NaiveReturn ==
    /\ pc = "naive_loop"
    /\ i >= n_row
    /\ ret' = next_aggregate - 1
    /\ pc' = "naive_done"
    /\ UNCHANGED <<i, n_row, Ap, Aj, x, y, next_aggregate>>
    /\ UNCHANGED aggIdle
    /\ UNCHANGED aggHist

NaiveNext ==
    \/ NaiveEntry
    \/ NaiveStep
    \/ NaiveReturn

NaiveInit ==
    /\ pc = "naive_entry"
    /\ \E n \in 0..MaxNodes, descending \in BOOLEAN :
       \E cols \in [0..(n - 1) -> SUBSET (0..(n - 1))] :
          GraphInit(n, GraphRows(cols, n, descending))

SpecNaive == NaiveInit /\ [][NaiveNext]_vars

(***************************************************************************)
(* symmetric_strength_of_connection (lines 46-93), for real T: the values  *)
(* are integers and theta is a non-negative integer.                       *)
(***************************************************************************)
\* linalg.h: the magnitude of a real scalar
mynorm(v) == IF v < 0 THEN -v ELSE v

\* linalg.h: the squared magnitude of a real scalar
mynormsq(v) == v * v

\* lines 58-63: the sum of the entries of positions jj..end-1 whose column is r
RECURSIVE DiagSum(_, _, _)
DiagSum(jj, end, r) ==
    IF jj >= end THEN 0
    ELSE (IF Aj[jj] = r THEN Ax[jj] ELSE 0) + DiagSum(jj + 1, end, r)

\* lines 57-68: the loop computing diags; nnz = 0; Sp[0] = 0
StrDiags ==
    /\ pc = "str_entry"
    /\ diags' = [r \in 0..(n_row - 1) |-> mynorm(DiagSum(Ap[r], Ap[r + 1], r))]
    /\ nnz' = 0
    /\ Sp' = [Sp EXCEPT ![0] = 0]
    /\ i' = 0
    /\ pc' = "str_rows"
    /\ UNCHANGED <<n_row, Ap, Aj, Ax, theta, Sj, Sx>>
    /\ UNCHANGED strIdle

\* line 84 with > for >=
StrongTestStrict(Aij, eps_Aii, dj) == mynormsq(Aij) > eps_Aii * dj

\* line 84: the test of an off-diagonal entry
StrongTest(Aij, eps_Aii, dj) == mynormsq(Aij) >= eps_Aii * dj

\* lines 74-90: the entries jj..end-1 of row r appended to out = [Sj, Sx, nnz]
RECURSIVE StrCopyRow(_, _, _, _, _)
StrCopyRow(jj, end, r, eps_Aii, out) ==
    IF jj >= end THEN out
    ELSE LET j   == Aj[jj]
             Aij == Ax[jj]
         IN  IF r = j \/ StrongTest(Aij, eps_Aii, diags[j])
               THEN StrCopyRow(jj + 1, end, r, eps_Aii,
                               [Sj  |-> [out.Sj EXCEPT ![out.nnz] = j],
                                Sx  |-> [out.Sx EXCEPT ![out.nnz] = Aij],
                                nnz |-> out.nnz + 1])
               ELSE StrCopyRow(jj + 1, end, r, eps_Aii, out)

\* lines 70-92: one iteration of the loop over the rows
StrRowStep ==
    /\ pc = "str_rows"
    /\ i < n_row
    /\ LET eps_Aii == theta * theta * diags[i]
           out == StrCopyRow(Ap[i], Ap[i + 1], i, eps_Aii,
                             [Sj |-> Sj, Sx |-> Sx, nnz |-> nnz])
       IN  /\ Sj' = out.Sj
           /\ Sx' = out.Sx
           /\ nnz' = out.nnz
           /\ Sp' = [Sp EXCEPT ![i + 1] = out.nnz]
    /\ i' = i + 1
    /\ UNCHANGED <<pc, n_row, Ap, Aj, Ax, theta, diags>>
    /\ UNCHANGED strIdle

\* line 93: the kernel returns
StrReturn ==
    /\ pc = "str_rows"
    /\ i >= n_row
    /\ pc' = "str_done"
    /\ UNCHANGED <<i, n_row, Ap, Aj, Ax, theta, diags, nnz, Sp, Sj, Sx>>
    /\ UNCHANGED strIdle

StrNext ==
    \/ StrDiags
    \/ StrRowStep
    \/ StrReturn

\* the values of the entries of A, and the tolerances
StrValues == {-1, 2}
StrThetas == {0, 1}

\* the row pointers of n rows over z entries: Ap[0] = 0 <= ... <= Ap[n] = z
RowPointers(n, z) ==
    {p \in [0..n -> 0..z] :
        /\ p[0] = 0
        /\ p[n] = z
        /\ \A r \in 0..(n - 1) : p[r] <= p[r + 1]}

\* a stale value of an output buffer: no column index, and no value of A
StaleValue == 0

StrInit ==
    /\ pc = "str_entry"
    /\ i = 0
    /\ \E n \in 1..StrMaxRows, z \in 0..StrMaxNnz :
          /\ n_row = n
          /\ Ap \in RowPointers(n, z)
          /\ Aj \in [0..(z - 1) -> 0..(n - 1)]
          /\ Ax \in [0..(z - 1) -> StrValues]
          /\ Sp = [k \in 0..n |-> Stale(z)]
          /\ Sj = [k \in 0..(z - 1) |-> Stale(n)]
          /\ Sx = [k \in 0..(z - 1) |-> StaleValue]
          /\ diags = <<>>
    /\ theta \in StrThetas
    /\ nnz = Stale(0)
    /\ StrIdleInit

SpecStr == StrInit /\ [][StrNext]_vars

(***************************************************************************)
(* incomplete_mat_mult_bsr (lines 728-792).  A pointer into Sx is the      *)
(* index of the element it points to.                                      *)
(***************************************************************************)
\* (T *) NULL
NULL == -1

\* lines 739-741
A_blocksize == brow_A * bcol_A
B_blocksize == bcol_A * bcol_B
S_blocksize == brow_A * bcol_B

\* lines 742-744
one_by_one_blocksize ==
    A_blocksize = B_blocksize /\ B_blocksize = S_blocksize /\ A_blocksize = 1

\* the positions jj = p[r], ..., p[r+1]-1 of row r under row pointer p
RangeOf(p, r) == p[r]..(p[r + 1] - 1)

\* lines 751-754: S[ Sj[jj] ] = &(Sx[jj*S_blocksize]) for jj = from..to-1
RECURSIVE SetLookup(_, _, _)
SetLookup(look, from, to) ==
    IF from >= to THEN look
    ELSE SetLookup([look EXCEPT ![Sj[from]] = from * S_blocksize], from + 1, to)

\* the lookup left as it is at the end of a row
KeepLookup(look, from, to) == look

\* lines 786-789: S[ Sj[jj] ] = NULL for jj = from..to-1
RECURSIVE ResetLookup(_, _, _)
ResetLookup(look, from, to) ==
    IF from >= to THEN look
    ELSE ResetLookup([look EXCEPT ![Sj[from]] = NULL], from + 1, to)

\* linalg.h gemm, as called on line 776: the dense product of the
\* Arows x Acols block at Ax[aoff] and the Brows x Bcols block at Bx[boff],
\* added to the Srows x Scols block at sx[soff]; blocks are row-major
gemm(aoff, Arows, Acols, boff, Brows, Bcols, sx, soff, Srows, Scols) ==
    [q \in DOMAIN sx |->
        IF q >= soff /\ q < soff + Srows * Scols
          THEN LET r == (q - soff) \div Scols
                   c == (q - soff) % Scols
                   Dot[k \in 0..Acols] ==
                       IF k = 0 THEN 0
                       ELSE Dot[k - 1]
                            + Ax[aoff + r * Acols + (k - 1)] * Bx[boff + (k - 1) * Bcols + c]
               IN  sx[q] + Dot[Acols]
          ELSE sx[q]]

\* line 773 with = for +=
StoreProduct(sx, Sk, jj, kk) ==
    IF one_by_one_blocksize
      THEN [sx EXCEPT ![Sk] = Ax[jj] * Bx[kk]]
      ELSE gemm(jj * A_blocksize, brow_A, bcol_A,
                kk * B_blocksize, bcol_A, bcol_B,
                [q \in DOMAIN sx |-> IF q >= Sk /\ q < Sk + S_blocksize THEN 0 ELSE sx[q]],
                Sk, brow_A, bcol_B)

\* lines 771-780: the product of block jj of A and block kk of B added at Sk
Accumulate(sx, Sk, jj, kk) ==
    IF one_by_one_blocksize
      THEN [sx EXCEPT ![Sk] = @ + Ax[jj] * Bx[kk]]
      ELSE gemm(jj * A_blocksize, brow_A, bcol_A,
                kk * B_blocksize, bcol_A, bcol_B,
                sx, Sk, brow_A, bcol_B)

\* lines 765-782: the loop over the blocks kk..kk_end-1 of row Aj[jj] of B
RECURSIVE MMRowOfB(_, _, _, _, _)
MMRowOfB(kk, kk_end, jj, look, sx) ==
    IF kk >= kk_end THEN sx
    ELSE LET Sk == look[Bj[kk]]
         IN  MMRowOfB(kk + 1, kk_end, jj, look,
                      IF Sk # NULL THEN Accumulate(sx, Sk, jj, kk) ELSE sx)

\* lines 759-783: the loop over the blocks jj..jj_end-1 of a row of A
RECURSIVE MMRowOfA(_, _, _, _)
MMRowOfA(jj, jj_end, look, sx) ==
    IF jj >= jj_end THEN sx
    ELSE MMRowOfA(jj + 1, jj_end, look,
                  MMRowOfB(Bp[Aj[jj]], Bp[Aj[jj] + 1], jj, look, sx))

\* lines 736-744: the lookup is allocated and filled with NULL
MMEntry ==
    /\ pc = "mm_entry"
    /\ S' = [c \in 0..(n_bcol - 1) |-> NULL]
    /\ i' = 0
    /\ pc' = "mm_rows"
    /\ UNCHANGED <<Ap, Aj, Ax, Bp, Bj, Bx, Sp, Sj, Sx, Sx_entry>>
    /\ UNCHANGED <<n_brow, n_bcol, brow_A, bcol_A, bcol_B>>
    /\ UNCHANGED mmIdle

\* lines 747-791: one iteration of the loop over the rows of A
MMRowStep ==
    /\ pc = "mm_rows"
    /\ i < n_brow
    /\ LET look == SetLookup(S, Sp[i], Sp[i + 1])
       IN  /\ Sx' = MMRowOfA(Ap[i], Ap[i + 1], look, Sx)
           /\ S' = ResetLookup(look, Sp[i], Sp[i + 1])
    /\ i' = i + 1
    /\ UNCHANGED <<pc, Ap, Aj, Ax, Bp, Bj, Bx, Sp, Sj, Sx_entry>>
    /\ UNCHANGED <<n_brow, n_bcol, brow_A, bcol_A, bcol_B>>
    /\ UNCHANGED mmIdle

\* line 792: the kernel returns
MMReturn ==
    /\ pc = "mm_rows"
    /\ i >= n_brow
    /\ pc' = "mm_done"
    /\ UNCHANGED <<i, Ap, Aj, Ax, Bp, Bj, Bx, Sp, Sj, Sx, Sx_entry, S>>
    /\ UNCHANGED <<n_brow, n_bcol, brow_A, bcol_A, bcol_B>>
    /\ UNCHANGED mmIdle

MMNext ==
    \/ MMEntry
    \/ MMRowStep
    \/ MMReturn

\* the numbers of block rows and block columns of the matrices
MMDims == 1..2

\* the block sizes <<brow_A, bcol_A, bcol_B>>
MMBlockShapes == {<<1, 1, 1>>, <<1, 2, 1>>, <<2, 1, 2>>}

\* the rows of the r x c pattern whose stored blocks are the cells
PatternRows(cells, r) ==
    [q \in 0..(r - 1) |-> Ascending({d[2] : d \in {e \in cells : e[1] = q}})]

\* the data of z stored elements: element q holds base + q
DataOf(z, base) == [q \in 0..(z - 1) |-> base + q]

MMInit ==
    /\ pc = "mm_entry"
    /\ i = 0
    /\ S = <<>>
    /\ \E nr \in MMDims, ni \in MMDims, nc \in MMDims :
       \E ca \in SUBSET ((0..(nr - 1)) \X (0..(ni - 1))),
          cb \in SUBSET ((0..(ni - 1)) \X (0..(nc - 1))),
          cs \in SUBSET ((0..(nr - 1)) \X (0..(nc - 1))) :
          /\ Cardinality(ca) + Cardinality(cb) + Cardinality(cs) <= MMMaxEntries
          /\ n_brow = nr
          /\ n_bcol = nc
          /\ Ap = RowPtrOf(PatternRows(ca, nr), nr)
          /\ Aj = ColIdxOf(PatternRows(ca, nr), nr)
          /\ Bp = RowPtrOf(PatternRows(cb, ni), ni)
          /\ Bj = ColIdxOf(PatternRows(cb, ni), ni)
          /\ Sp = RowPtrOf(PatternRows(cs, nr), nr)
          /\ Sj = ColIdxOf(PatternRows(cs, nr), nr)
          /\ \E shape \in MMBlockShapes, prior \in {0, 1} :
                /\ brow_A = shape[1]
                /\ bcol_A = shape[2]
                /\ bcol_B = shape[3]
                /\ Ax = DataOf(Cardinality(ca) * shape[1] * shape[2], 1)
                /\ Bx = DataOf(Cardinality(cb) * shape[2] * shape[3], 2)
                /\ Sx = [q \in 0..(Cardinality(cs) * shape[1] * shape[3] - 1) |->
                            prior * (q + 1)]
                /\ Sx_entry = Sx
    /\ MMIdleInit

SpecMM == MMInit /\ [][MMNext]_vars

(***************************************************************************)
(* The kernels called with a row pointer that need not be monotone.  The   *)
(* pointer stays within the index array, so that every read is of an       *)
(* element of the arrays.                                                  *)
(***************************************************************************)
\* the row pointers of n rows over z entries, monotone or not
AnyRowPointers(n, z) == [0..n -> 0..z]

\* lines 116-120: a call of standard_aggregation
StdRawInit ==
    /\ pc = "std_entry"
    /\ i = 0
    /\ \E n \in 1..MaxNodes, z \in 0..RawMaxNnz :
          /\ n_row = n
          /\ Ap \in AnyRowPointers(n, z)
          /\ Aj \in [0..(z - 1) -> 0..(n - 1)]
          /\ x = [k \in 0..(n - 1) |-> Stale(n)]
          /\ y = [k \in 0..(n - 1) |-> Stale(n)]
    /\ next_aggregate = 0
    /\ ret = -1
    /\ x_pass2 = <<>>
    /\ pass3_id = <<>>
    /\ AggIdleInit

\* lines 729-733: a call of incomplete_mat_mult_bsr on 1x1 blocks; the row
\* pointer of A need not be monotone, B and S are well-formed
MMRawInit ==
    /\ pc = "mm_entry"
    /\ i = 0
    /\ S = <<>>
    /\ \E nr \in MMDims, z \in 0..RawMaxNnz :
       \E cb \in SUBSET ((0..1) \X (0..1)), cs \in SUBSET ((0..(nr - 1)) \X (0..1)) :
          /\ n_brow = nr
          /\ n_bcol = 2
          /\ Ap \in AnyRowPointers(nr, z)
          /\ Aj \in [0..(z - 1) -> 0..1]
          /\ Ax = DataOf(z, 1)
          /\ Bp = RowPtrOf(PatternRows(cb, 2), 2)
          /\ Bj = ColIdxOf(PatternRows(cb, 2), 2)
          /\ Bx = DataOf(Cardinality(cb), 2)
          /\ Sp = RowPtrOf(PatternRows(cs, nr), nr)
          /\ Sj = ColIdxOf(PatternRows(cs, nr), nr)
          /\ Sx = [q \in 0..(Cardinality(cs) - 1) |-> 0]
          /\ Sx_entry = Sx
    /\ brow_A = 1
    /\ bcol_A = 1
    /\ bcol_B = 1
    /\ MMIdleInit

RawInit == StdRawInit \/ MMRawInit

RawNext == StdNext \/ MMNext

SpecRaw == RawInit /\ [][RawNext]_vars

(***************************************************************************)
(* Claims about standard_aggregation.                                      *)
(***************************************************************************)
StdDone == pc = "std_done"

Nodes == 0..(n_row - 1)

\* the aggregate ids in use on return
UsedIds == {x[k] : k \in {m \in Nodes : x[m] >= 0}}

\* row r holds no column other than r itself
Isolated(r) == \A jj \in RowRange(r) : Aj[jj] = r

\* node r is a column of the row of another node
ListedElsewhere(r) == \E q \in Nodes \ {r} : r \in RowCols(q)

\* j is in row r iff r is in row j
StructurallySymmetric ==
    \A r \in Nodes, q \in Nodes : (q \in RowCols(r)) <=> (r \in RowCols(q))

\* C1: when standard_aggregation returns c, every x[i] >= -1 and the number
\* of distinct non-negative values in x equals c.
C1_DistinctIdsEqualCount ==
    StdDone =>
        /\ \A k \in Nodes : x[k] >= -1
        /\ Cardinality(UsedIds) = ret

\* C2 (as claimed): every node whose row holds no column other than itself
\* ends with x[i] = -1.
C2_IsolatedRowGetsMinusOne ==
    StdDone => \A r \in Nodes : Isolated(r) => x[r] = -1

\* C2 (amended): every node whose row holds no column other than itself, and
\* which is a column of no other node's row, ends with x[i] = -1.
C2_UnlistedIsolatedGetsMinusOne ==
    StdDone => \A r \in Nodes : (Isolated(r) /\ ~ListedElsewhere(r)) => x[r] = -1

\* an isolated node no row lists, beside an aggregate of other nodes
C2_Witness ==
    /\ StdDone
    /\ ret >= 1
    /\ \E r \in Nodes : Isolated(r) /\ ~ListedElsewhere(r) /\ x[r] = -1

\* C3: when standard_aggregation returns c, x[y[k]] = k for every k in
\* 0..c-1, so the roots y[0..c-1] are pairwise distinct members.
C3_RootsAreMembers ==
    StdDone =>
        \A k \in 0..(ret - 1) : y[k] \in Nodes /\ x[y[k]] = k


(***************************************************************************)
(* Claims about naive_aggregation.                                         *)
(***************************************************************************)
NaiveDone == pc = "naive_done"

\* the largest of a non-empty finite set of integers
MaxOf(vs) == CHOOSE v \in vs : \A w \in vs : w <= v

\* C4: when naive_aggregation returns c, every x[i] is a 0-based aggregate
\* id in 0..c-1, and c = max(x) + 1.
C4_NaiveIdsZeroBased ==
    NaiveDone =>
        /\ \A k \in Nodes : x[k] \in 0..(ret - 1)
        /\ (n_row > 0 => ret = MaxOf({x[k] : k \in Nodes}) + 1)

\* what the code does instead: the ids are 1-based, 1..c, each in use, and
\* the root y[k-1] of aggregate k is a member of it
NaiveIdsOneBased ==
    NaiveDone =>
        /\ \A k \in Nodes : x[k] \in 1..ret
        /\ \A k \in 1..ret : y[k - 1] \in Nodes /\ x[y[k - 1]] = k

\* what the code does on structurally symmetric input: C1 and C3 hold there
StdSymmetricContract ==
    (StdDone /\ StructurallySymmetric) =>
        /\ \A k \in Nodes : x[k] >= -1
        /\ Cardinality(UsedIds) = ret
        /\ \A k \in 0..(ret - 1) : y[k] \in Nodes /\ x[y[k]] = k


(***************************************************************************)
(* Claims about symmetric_strength_of_connection.                          *)
(***************************************************************************)
StrDone == pc = "str_done"

\* the sum of f over the finite set P of positions
RECURSIVE SumOver(_, _)
SumOver(P, f) ==
    IF P = {} THEN 0
    ELSE LET p == CHOOSE q \in P : TRUE
         IN  f[p] + SumOver(P \ {p}, f)

\* the magnitude of the sum of all stored diagonal entries of row r
DiagOf(r) == mynorm(SumOver({jj \in RowRange(r) : Aj[jj] = r}, Ax))

\* the stored entry at position jj of row r belongs to S
BelongsToS(r, jj) ==
    \/ Aj[jj] = r
    \/ mynormsq(Ax[jj]) >= theta * theta * DiagOf(r) * DiagOf(Aj[jj])

\* the positions of row r that belong to S, in stored order
KeptOf(r) == Ascending({jj \in RowRange(r) : BelongsToS(r, jj)})

\* C5: a stored off-diagonal entry A[i,j] is copied to row i of S iff
\* normSquared(A[i,j]) >= theta^2 * diag[i] * diag[j]; every stored diagonal
\* entry is copied whatever theta is; S contains no other entries.
C5_StrengthThreshold ==
    StrDone =>
        /\ Sp[0] = 0
        /\ \A r \in Nodes :
              LET kept == KeptOf(r)
              IN  /\ Sp[r + 1] = Sp[r] + Len(kept)
                  /\ \A m \in 1..Len(kept) :
                        /\ Sj[Sp[r] + m - 1] = Aj[kept[m]]
                        /\ Sx[Sp[r] + m - 1] = Ax[kept[m]]

\* a row with a diagonal entry, an off-diagonal entry that is dropped and
\* one that is kept, under a positive theta
C5_Witness ==
    /\ StrDone
    /\ theta > 0
    /\ \E r \in Nodes :
          /\ \E jj \in RowRange(r) : Aj[jj] = r
          /\ \E jj \in RowRange(r) : Aj[jj] # r /\ ~BelongsToS(r, jj)
    /\ \E r \in Nodes : \E jj \in RowRange(r) : Aj[jj] # r /\ BelongsToS(r, jj)


(***************************************************************************)
(* Claims about incomplete_mat_mult_bsr.                                   *)
(***************************************************************************)
MMDone == pc = "mm_done"

\* the pairs <<jj, kk>>: block jj of row r of A is A[r,k] and block kk of
\* row k of B is B[k,c]
PathsTo(r, c) ==
    {path \in RangeOf(Ap, r) \X DOMAIN Bj :
        /\ path[2] \in RangeOf(Bp, Aj[path[1]])
        /\ Bj[path[2]] = c}

\* element (rr, cc) of the product of block jj of A and block kk of B
BlockProductAt(jj, kk, rr, cc) ==
    LET term[k \in 0..(bcol_A - 1)] ==
            Ax[jj * A_blocksize + rr * bcol_A + k] * Bx[kk * B_blocksize + k * bcol_B + cc]
    IN  SumOver(0..(bcol_A - 1), term)

\* element (rr, cc) of the sum of A[r,k] * B[k,c] over the paths
RECURSIVE SumOfPaths(_, _, _)
SumOfPaths(paths, rr, cc) ==
    IF paths = {} THEN 0
    ELSE LET path == CHOOSE q \in paths : TRUE
         IN  BlockProductAt(path[1], path[2], rr, cc)
             + SumOfPaths(paths \ {path}, rr, cc)

\* the place in Sx of element (rr, cc) of the stored block jj of S
SxAt(jj, rr, cc) == jj * S_blocksize + rr * bcol_B + cc

SxZeroOnEntry == \A q \in DOMAIN Sx_entry : Sx_entry[q] = 0

\* C6: with Sx zero on entry, every stored entry (i,j) of S equals the sum
\* of A[i,k]*B[k,j] over all k with (i,k) stored in A and (k,j) stored in B;
\* product pairs outside the pattern of S change no entry of Sx.
C6_IncompleteProduct ==
    (MMDone /\ SxZeroOnEntry) =>
        \A r \in 0..(n_brow - 1) : \A jj \in RangeOf(Sp, r) :
            \A rr \in 0..(brow_A - 1), cc \in 0..(bcol_B - 1) :
                Sx[SxAt(jj, rr, cc)] = SumOfPaths(PathsTo(r, Sj[jj]), rr, cc)

\* an entry of S reached by two products, beside a product pair that falls
\* outside the pattern of S
C6_Witness ==
    /\ MMDone
    /\ SxZeroOnEntry
    /\ \E r \in 0..(n_brow - 1) :
          /\ \E jj \in RangeOf(Sp, r) : Cardinality(PathsTo(r, Sj[jj])) >= 2
          /\ \E c \in 0..(n_bcol - 1) :
                /\ PathsTo(r, c) # {}
                /\ \A jj \in RangeOf(Sp, r) : Sj[jj] # c

\* C7: a stored entry (i,j) of S with no k such that (i,k) is stored in A
\* and (k,j) in B has on return the value it had on entry.
C7_UnreachedEntryKept ==
    MMDone =>
        \A r \in 0..(n_brow - 1) : \A jj \in RangeOf(Sp, r) :
            PathsTo(r, Sj[jj]) = {} =>
                \A rr \in 0..(brow_A - 1), cc \in 0..(bcol_B - 1) :
                    Sx[SxAt(jj, rr, cc)] = Sx_entry[SxAt(jj, rr, cc)]

\* a row of S with non-zero values on entry, one entry of which no product
\* reaches while another one is updated
C7_Witness ==
    /\ MMDone
    /\ \E r \in 0..(n_brow - 1) : \E jj \in RangeOf(Sp, r), kk \in RangeOf(Sp, r) :
          /\ PathsTo(r, Sj[jj]) = {}
          /\ Sx[SxAt(jj, 0, 0)] # 0
          /\ PathsTo(r, Sj[kk]) # {}
          /\ Sx[SxAt(kk, 0, 0)] # Sx_entry[SxAt(kk, 0, 0)]


(***************************************************************************)
(* Claims about precondition violations.                                   *)
(***************************************************************************)
\* the row pointer Ap is not monotone
Malformed == \E r \in DOMAIN Ap : (r + 1) \in DOMAIN Ap /\ Ap[r] > Ap[r + 1]

InStd == pc \in {"std_entry", "pass1", "pass2", "pass3", "std_done"}

InMM == pc \in {"mm_entry", "mm_rows", "mm_done"}

\* C8 (as claimed): a precondition violation is reported before any
\* computation proceeds: on a malformed row pointer the kernel writes
\* nothing to its output buffers.
C8_MalformedWritesNothing ==
    Malformed =>
        /\ InStd => (\A k \in Nodes : x[k] = Stale(n_row) /\ y[k] = Stale(n_row))
        /\ InMM => Sx = Sx_entry

\* C8 (amended): the kernels do not check their input.  On a row pointer
\* that is not monotone they run to their return, reading each row as the
\* positions Ap[i]..Ap[i+1]-1 (none when Ap[i] >= Ap[i+1]), and write their
\* outputs: standard_aggregation has overwritten every x[i] with a label in
\* -1..n_row-1 (-1 for a node with no off-diagonal column that no row
\* lists) and returns a count in 0..n_row; incomplete_mat_mult_bsr has
\* added to Sx every product A[i,k]*B[k,j] of the rows as read.
C8_MalformedIsProcessed ==
    Malformed =>
        /\ StdDone =>
              /\ ret \in 0..n_row
              /\ \A k \in Nodes : x[k] \in -1..(n_row - 1)
              /\ \A k \in Nodes : (Isolated(k) /\ ~ListedElsewhere(k)) => x[k] = -1
        /\ MMDone =>
              \A r \in 0..(n_brow - 1) : \A jj \in RangeOf(Sp, r) :
                  Sx[jj] = SumOfPaths(PathsTo(r, Sj[jj]), 0, 0)

\* standard_aggregation has returned on a row pointer that is not monotone,
\* with an aggregate formed and an isolated node marked
C8_Witness ==
    /\ Malformed
    /\ StdDone
    /\ ret >= 1
    /\ \E k \in Nodes : x[k] = -1
    /\ \E k \in Nodes : x[k] >= 0

\* incomplete_mat_mult_bsr has returned on a row pointer that is not
\* monotone, with a product written to Sx
MalformedProductWritten ==
    /\ Malformed
    /\ MMDone
    /\ Sx # Sx_entry

(***************************************************************************)
(* calc_BtB (lines 592-666).  A value of type T is a complex number with   *)
(* integer parts, written <<re, im>>.                                      *)
(***************************************************************************)
CZero == <<0, 0>>
CAdd(u, v) == <<u[1] + v[1], u[2] + v[2]>>
CMul(u, v) == <<u[1] * v[1] - u[2] * v[2], u[1] * v[2] + u[2] * v[1]>>

\* linalg.h conjugate
conjugate(u) == <<u[1], 0 - u[2]>>

\* line 603
NullDimSq == NullDim * NullDim

\* BsqCounter at the top of iteration m of the loops of lines 632 and 641:
\* k*BsqCols, then "BsqCounter += (NullDim - m)" once per finished iteration
RECURSIVE BsqCounter(_, _)
BsqCounter(k, m) ==
    IF m = 0 THEN k * BsqCols
    ELSE BsqCounter(k, m - 1) + (NullDim - (m - 1))

\* lines 630-637: the diagonal of BtB_loc, iterations m..NullDim-1
RECURSIVE BtBDiagonal(_, _, _)
BtBDiagonal(loc, k, m) ==
    IF m >= NullDim THEN loc
    ELSE BtBDiagonal([loc EXCEPT ![m * (NullDim + 1)] = CAdd(@, Bsq[BsqCounter(k, m)])],
                     k, m + 1)

\* both triangles receive the packed product unchanged
MirrorPlain(loc, m, n, elmt_bsq) ==
    [loc EXCEPT ![m * NullDim + n] = CAdd(@, elmt_bsq),
                ![n * NullDim + m] = CAdd(@, elmt_bsq)]

\* lines 647-648
MirrorConjugate(loc, m, n, elmt_bsq) ==
    [loc EXCEPT ![m * NullDim + n] = CAdd(@, conjugate(elmt_bsq)),
                ![n * NullDim + m] = CAdd(@, elmt_bsq)]

\* lines 640-652: the off-diagonals of BtB_loc, from iteration (m, n) on;
\* "counter" is n - m
RECURSIVE BtBOffDiagonal(_, _, _, _)
BtBOffDiagonal(loc, k, m, n) ==
    IF m >= NullDim THEN loc
    ELSE IF n >= NullDim THEN BtBOffDiagonal(loc, k, m + 1, m + 2)
    ELSE BtBOffDiagonal(
             MirrorConjugate(loc, m, n, Bsq[BsqCounter(k, m) + (n - m)]),
             k, m, n + 1)

\* lines 627-653: the loop over the fine rows k..colend-1 of one block column
RECURSIVE BtBFineRows(_, _, _)
BtBFineRows(loc, k, colend) ==
    IF k >= colend THEN loc
    ELSE BtBFineRows(BtBOffDiagonal(BtBDiagonal(loc, k, 0), k, 0, 1), k + 1, colend)

\* lines 619-654: the loop over the stored block columns j..rowend-1 of a row
RECURSIVE BtBBlockRow(_, _, _)
BtBBlockRow(loc, j, rowend) ==
    IF j >= rowend THEN loc
    ELSE LET colstart == Sj[j] * ColsPerBlock
             colend   == colstart + ColsPerBlock
         IN  BtBBlockRow(BtBFineRows(loc, colstart, colend), j + 1, rowend)

\* lines 610-662: one iteration of the loop over the block rows
BtBRowStep ==
    /\ pc = "btb_rows"
    /\ i < Nnodes
    /\ LET zeroed  == [k \in 0..(NullDimSq - 1) |-> CZero]
           BtB_loc == BtBBlockRow(zeroed, Sp[i], Sp[i + 1])
       IN  BtB' = [q \in DOMAIN BtB |->
                      IF q >= i * NullDimSq /\ q < (i + 1) * NullDimSq
                        THEN BtB_loc[q - i * NullDimSq]
                        ELSE BtB[q]]
    /\ i' = i + 1
    /\ UNCHANGED <<pc, Sp, Sj, NullDim, Nnodes, ColsPerBlock, Bsq, BsqCols, BtB_entry>>
    /\ UNCHANGED btbIdle

\* lines 610, 664-666: the loop ends and the kernel returns
BtBReturn ==
    /\ pc = "btb_rows"
    /\ i >= Nnodes
    /\ pc' = "btb_done"
    /\ UNCHANGED <<i, Sp, Sj, btbVars>>
    /\ UNCHANGED btbIdle

BtBNext == BtBRowStep \/ BtBReturn

\* lines 566-573: place of the product of candidates m and n, m <= n, in a row of b
PackedIndex(m, n, nd) == m * nd - ((m * (m - 1)) \div 2) + (n - m)

\* entry (k, m) of a candidate matrix B
Candidate(k, m, shift) == <<k + 1 + shift, m + 1>>

\* lines 564-575: b, row-major, b[k][(m,n)] = conjugate(B[k,m]) * B[k,n]
BsqOf(rows, nd, shift) ==
    LET cols == (nd * (nd + 1)) \div 2
    IN  [q \in 0..(rows * cols - 1) |->
            LET k  == q \div cols
                mn == CHOOSE d \in (0..(nd - 1)) \X (0..(nd - 1)) :
                          d[1] <= d[2] /\ PackedIndex(d[1], d[2], nd) = q % cols
            IN  CMul(conjugate(Candidate(k, mn[1], shift)), Candidate(k, mn[2], shift))]

BtBInit ==
    /\ pc = "btb_rows"
    /\ i = 0
    /\ BtBIdleInit
    /\ \E nd \in 1..BtBMaxNullDim, nn \in 1..BtBMaxNodes, nc \in 1..BtBMaxCols :
       \E cpb \in 1..2, shift \in 0..1, prior \in 0..1, descending \in BOOLEAN :
       \E cols \in [0..(nn - 1) -> SUBSET (0..(nc - 1))] :
          /\ NullDim = nd
          /\ Nnodes = nn
          /\ ColsPerBlock = cpb
          /\ BsqCols = (nd * (nd + 1)) \div 2
          /\ Bsq = BsqOf(nc * cpb, nd, shift)
          /\ Sp = RowPtrOf(GraphRows(cols, nn, descending), nn)
          /\ Sj = ColIdxOf(GraphRows(cols, nn, descending), nn)
          /\ BtB = [q \in 0..(nn * nd * nd - 1) |-> <<prior * (q + 1), prior * (q + 2)>>]
          /\ BtB_entry = BtB

SpecBtB == BtBInit /\ [][BtBNext]_vars


(***************************************************************************)
(* calc_BtB                                                                *)
(***************************************************************************)
BtBDone == pc = "btb_done"

\* the pairs <<j, k>>: stored position j of block row r, fine row k of block column Sj[j]
FineRowsOf(r) ==
    UNION {{<<j, k>> : k \in (Sj[j] * ColsPerBlock)..(Sj[j] * ColsPerBlock + ColsPerBlock - 1)} :
           j \in RangeOf(Sp, r)}

\* the sum over those pairs of the packed product bsq[k][(m,n)]
RECURSIVE PackedSum(_, _, _)
PackedSum(P, m, n) ==
    IF P = {} THEN CZero
    ELSE LET p == CHOOSE q \in P : TRUE
         IN  CAdd(Bsq[p[2] * BsqCols + PackedIndex(m, n, NullDim)],
                  PackedSum(P \ {p}, m, n))

\* entry (row, col) of the block of block row r, read column-major
EntryAt(r, row, col) == BtB[r * NullDimSq + col * NullDim + row]

\* C10: on return, for every block row r and all m <= n, entry (m,n) of
\* BtB[r], read column-major, is the sum over every stored block column of
\* row r and every fine row of that block column of bsq[k][(m,n)], entry
\* (n,m) is its conjugate, whatever the output array held on entry.
C10_BtBIsPackedGram ==
    BtBDone =>
        \A r \in 0..(Nnodes - 1) : \A m \in 0..(NullDim - 1), n \in 0..(NullDim - 1) :
            m <= n =>
                /\ EntryAt(r, m, n) = PackedSum(FineRowsOf(r), m, n)
                /\ EntryAt(r, n, m) = conjugate(PackedSum(FineRowsOf(r), m, n))

\* the kernel has returned on an output array that held other values, with
\* two candidates, a block row of two stored block columns of two fine rows
\* each, and an off-diagonal entry that is not real
C10_Witness ==
    /\ BtBDone
    /\ NullDim = 2
    /\ ColsPerBlock = 2
    /\ \E q \in DOMAIN BtB_entry : BtB_entry[q] # CZero
    /\ \E r \in 0..(Nnodes - 1) :
          /\ Sp[r + 1] - Sp[r] = 2
          /\ EntryAt(r, 0, 1)[2] # 0
          /\ EntryAt(r, 0, 1) # BtB_entry[r * NullDimSq + NullDim]
    /\ \E r \in 0..(Nnodes - 1) : Sp[r + 1] = Sp[r]


(***************************************************************************)
(* fit_candidates_common (lines 316-440).  A value of type T or S is the   *)
(* real number (n/d)*sqrt(r), written <<n, d, r>> with d > 0, n/d in       *)
(* lowest terms and r a squarefree positive integer, so that the square    *)
(* roots the kernel takes are exact.                                       *)
(***************************************************************************)
RECURSIVE GCD(_, _)
GCD(a, b) == IF b = 0 THEN a ELSE GCD(b, a % b)

VZero == <<0, 1, 1>>
VOne == <<1, 1, 1>>

\* the value (n/d)*sqrt(r), d > 0, r > 0, in the form above
Value(n, d, r) ==
    IF n = 0 THEN VZero
    ELSE LET k  == CHOOSE c \in 1..r :
                       /\ r % (c * c) = 0
                       /\ \A e \in (c + 1)..r : r % (e * e) # 0
             n2 == n * k
             g  == GCD(mynorm(n2), d)
         IN  <<n2 \div g, d \div g, r \div (k * k)>>

\* operator * on T
VMul(v, w) == Value(v[1] * w[1], v[2] * w[2], v[3] * w[3])

\* operator + and - on T, for two values with the same r or one of them zero
VAdd(v, w) ==
    IF v[1] = 0 THEN w
    ELSE IF w[1] = 0 THEN v
    ELSE Value(v[1] * w[2] + w[1] * v[2], v[2] * w[2], v[3])

VSub(v, w) == VAdd(v, <<0 - w[1], w[2], w[3]>>)

\* operator > on S, for two values that are not negative
VGreater(v, w) == v[1] * v[1] * v[3] * w[2] * w[2] > w[1] * w[1] * w[3] * v[2] * v[2]

\* 1.0/v for v > 0
VInverse(v) == Value(v[2], v[1] * v[3], v[3])

\* std::sqrt of a rational v >= 0
sqrt(v) == IF v[1] = 0 THEN VZero ELSE Value(1, v[2], v[1] * v[2])

\* linalg.h mynorm on a value: its magnitude
mynormOf(v) == <<mynorm(v[1]), v[2], v[3]>>

\* linalg.h dot on two real values
dot(a, b) == VMul(a, b)

\* line 331
BS == K1 * K2

\* the places Ax_start + c, Ax_start + c + K2, ... below Ax_end of aggregate j
ColPositions(j, c) ==
    {q \in (BS * Ap[j])..(BS * Ap[j + 1] - 1) : (q - BS * Ap[j]) % K2 = c}

\* lines 357-364 and 402-408: norm_j before the square root
RECURSIVE SumOfNorms(_, _)
SumOfNorms(ax, P) ==
    IF P = {} THEN VZero
    ELSE LET q == CHOOSE p \in P : TRUE
         IN  VAdd(mynormOf(ax[q]), SumOfNorms(ax, P \ {q}))

\* lines 374-384: dot_prod of columns bj and bi; P is the places of column bi
RECURSIVE DotProd(_, _, _, _)
DotProd(ax, P, bi, bj) ==
    IF P = {} THEN VZero
    ELSE LET q == CHOOSE p \in P : TRUE
         IN  VAdd(dot(ax[q - bi + bj], ax[q]), DotProd(ax, P \ {q}, bi, bj))

\* lines 371-398: column bj of aggregate j against the columns bi..bj-1
RECURSIVE Orthogonalize(_, _, _, _)
Orthogonalize(st, j, bj, bi) ==
    IF bi >= bj THEN st
    ELSE LET dot_prod == DotProd(st.Ax, ColPositions(j, bi), bi, bj)
         IN  Orthogonalize(
                 [Ax |-> [q \in DOMAIN st.Ax |->
                             IF q \in ColPositions(j, bj)
                               THEN VSub(st.Ax[q], VMul(dot_prod, st.Ax[q - bj + bi]))
                               ELSE st.Ax[q]],
                  R  |-> [st.R EXCEPT ![j * K2 * K2 + K2 * bi + bj] = dot_prod]],
                 j, bj, bi + 1)

\* lines 355-438: the columns bj..K2-1 of aggregate j
RECURSIVE FitBlockColumn(_, _, _)
FitBlockColumn(st, j, bj) ==
    IF bj >= K2 THEN st
    ELSE LET threshold_j == VMul(tol, sqrt(SumOfNorms(st.Ax, ColPositions(j, bj))))
             orth        == Orthogonalize(st, j, bj, 0)
             norm_j      == sqrt(SumOfNorms(orth.Ax, ColPositions(j, bj)))
             kept        == VGreater(norm_j, threshold_j)
             scale       == IF kept THEN VInverse(norm_j) ELSE VZero
         IN  FitBlockColumn(
                 [Ax |-> [q \in DOMAIN orth.Ax |->
                             IF q \in ColPositions(j, bj)
                               THEN VMul(orth.Ax[q], scale)
                               ELSE orth.Ax[q]],
                  R  |-> [orth.R EXCEPT ![j * K2 * K2 + K2 * bj + bj] =
                                            IF kept THEN norm_j ELSE VZero]],
                 j, bj + 1)

\* lines 328-343: R is filled with 0 and the blocks of B are copied into Ax
FitCopy ==
    /\ pc = "fit_entry"
    /\ R' = [q \in DOMAIN R |-> VZero]
    /\ Ax' = [q \in DOMAIN Ax |->
                 IF \E j \in 0..(n_col - 1) : (q \div BS) \in RangeOf(Ap, j)
                   THEN B[BS * Ai[q \div BS] + (q % BS)]
                   ELSE Ax[q]]
    /\ i' = 0
    /\ pc' = "fit_cols"
    /\ UNCHANGED <<n_row, Ap, n_col, K1, K2, Ai, B, tol>>
    /\ UNCHANGED fitIdle

\* lines 347-439: one iteration of the loop over the aggregates
FitColumnStep ==
    /\ pc = "fit_cols"
    /\ i < n_col
    /\ LET st == FitBlockColumn([Ax |-> Ax, R |-> R], i, 0)
       IN  /\ Ax' = st.Ax
           /\ R' = st.R
    /\ i' = i + 1
    /\ UNCHANGED <<pc, n_row, Ap, n_col, K1, K2, Ai, B, tol>>
    /\ UNCHANGED fitIdle

\* lines 347, 440: the loop ends and the kernel returns
FitReturn ==
    /\ pc = "fit_cols"
    /\ i >= n_col
    /\ pc' = "fit_done"
    /\ UNCHANGED <<i, n_row, Ap, Ax, fitVars>>
    /\ UNCHANGED fitIdle

FitNext == FitCopy \/ FitColumnStep \/ FitReturn

\* the entries of B and the tolerances a call is made with
FitValues == {<<0 - 1, 1, 1>>, VZero, <<2, 1, 1>>}
FitTols == {VZero, <<1, 2, 1>>}
\* the numbers of aggregates and the block sizes a call is made with
FitCols == 1..2
FitBlockSizes == 1..2

\* lines 289-290: the members of each aggregate, aggregate after aggregate
MemberRows(agg, nc) ==
    [j \in 0..(nc - 1) |-> Ascending({v \in DOMAIN agg : agg[v] = j})]

FitInit ==
    /\ pc = "fit_entry"
    /\ i = 0
    /\ FitIdleInit
    /\ \E n \in 1..FitMaxEntries, k1 \in FitBlockSizes, k2 \in FitBlockSizes :
       \E nc \in FitCols :
          /\ n * k1 * k2 <= FitMaxEntries
          /\ \E agg \in [0..(n - 1) -> (0 - 1)..(nc - 1)] :
                /\ n_row = n
                /\ n_col = nc
                /\ K1 = k1
                /\ K2 = k2
                /\ Ap = RowPtrOf(MemberRows(agg, nc), nc)
                /\ Ai = ColIdxOf(MemberRows(agg, nc), nc)
                /\ Ax = [q \in 0..(k1 * k2 * Ap[nc] - 1) |-> <<7, 1, 1>>]
                /\ R = [q \in 0..(nc * k2 * k2 - 1) |-> <<7, 1, 1>>]
          /\ B \in [0..(n * k1 * k2 - 1) -> FitValues]
          /\ tol \in FitTols

SpecFit == FitInit /\ [][FitNext]_vars


(***************************************************************************)
(* fit_candidates_common                                                   *)
(***************************************************************************)
FitDone == pc = "fit_done"

\* the rows of P and B that belong to aggregate j: block ii, row k1 of the block
FitMemberRows(j) == RangeOf(Ap, j) \X (0..(K1 - 1))

\* entry of P in member row t = <<ii, k1>> and column c of its aggregate
PAt(t, c) == Ax[BS * t[1] + t[2] * K2 + c]

\* entry of B in member row t = <<ii, k1>> and column c
BAt(t, c) == B[BS * Ai[t[1]] + t[2] * K2 + c]

\* entry (b, c) of R[j]
RAt(j, b, c) == R[j * K2 * K2 + K2 * b + c]

\* the inner product of columns b and c of P over the member rows T
RECURSIVE InnerProduct(_, _, _)
InnerProduct(T, b, c) ==
    IF T = {} THEN VZero
    ELSE LET t == CHOOSE u \in T : TRUE
         IN  VAdd(VMul(PAt(t, b), PAt(t, c)), InnerProduct(T \ {t}, b, c))

\* entry (t, c) of P*R[j], summed over the columns b..K2-1 of P
RECURSIVE ProductPR(_, _, _, _)
ProductPR(j, t, c, b) ==
    IF b >= K2 THEN VZero
    ELSE VAdd(VMul(PAt(t, b), RAt(j, b, c)), ProductPR(j, t, c, b + 1))

\* the columns of P of aggregate j whose diagonal entry of R[j] is nonzero are orthonormal
FitOrthonormal(j) ==
    \A b \in 0..(K2 - 1), c \in 0..(K2 - 1) :
        (RAt(j, b, b) # VZero /\ RAt(j, c, c) # VZero) =>
            InnerProduct(FitMemberRows(j), b, c) = (IF b = c THEN VOne ELSE VZero)

\* the columns of P of aggregate j whose diagonal entry of R[j] is zero are zero
FitDroppedIsZero(j) ==
    \A c \in 0..(K2 - 1) :
        RAt(j, c, c) = VZero => \A t \in FitMemberRows(j) : PAt(t, c) = VZero

\* P*R[j] is B on the member rows of aggregate j
FitReconstructs(j) ==
    \A t \in FitMemberRows(j), c \in 0..(K2 - 1) : ProductPR(j, t, c, 0) = BAt(t, c)

\* R[j] is upper triangular
FitUpperTriangular(j) ==
    \A b \in 0..(K2 - 1), c \in 0..(K2 - 1) : b > c => RAt(j, b, c) = VZero

\* C9: on return, for each aggregate j, the columns of P over the member
\* rows of j are orthonormal where the diagonal entry of R[j] is nonzero and
\* zero where it is zero, P*R[j] is B on those rows, and R[j] is upper
\* triangular.
C9_FitOrthonormalFactorisation ==
    FitDone =>
        \A j \in 0..(n_col - 1) :
            /\ FitOrthonormal(j)
            /\ FitDroppedIsZero(j)
            /\ FitReconstructs(j)
            /\ FitUpperTriangular(j)

\* what the kernel does establish: dropped columns are zero, R[j] is upper
\* triangular, and with tol = 0 the product P*R[j] is B on the member rows
FitFactorisation ==
    FitDone =>
        \A j \in 0..(n_col - 1) :
            /\ FitDroppedIsZero(j)
            /\ FitUpperTriangular(j)
            /\ tol = VZero => FitReconstructs(j)


(***************************************************************************)
(* satisfy_constraints_helper (lines 497-542).  Values are complex numbers *)
(* with integer parts, as for calc_BtB.                                    *)
(***************************************************************************)
CSub(u, v) == <<u[1] - v[1], u[2] - v[2]>>

\* lines 510-513
BlockSize == RowsPerBlock * ColsPerBlock
NullDim_Cols == NullDim * ColsPerBlock
NullDim_Rows == NullDim * RowsPerBlock

\* linalg.h gemm, as called on lines 531 and 535 (Atrans 'F', Btrans 'F',
\* overwrite 'T'): the product of the Arows x Acols matrix stored row-major
\* at a[aoff] and the Brows x Bcols matrix stored column-major at b[boff],
\* written over an Srows x Scols result that is column-major when Strans is
\* "T" and row-major when it is "F"
gemmOverwrite(a, aoff, Arows, Acols, b, boff, Brows, Bcols, Srows, Scols, Strans) ==
    [q \in 0..(Srows * Scols - 1) |->
        LET r == IF Strans = "T" THEN q % Srows ELSE q \div Scols
            c == IF Strans = "T" THEN q \div Srows ELSE q % Scols
            Dot[k \in 0..Acols] ==
                IF k = 0 THEN CZero
                ELSE CAdd(Dot[k - 1],
                          CMul(a[aoff + r * Acols + (k - 1)], b[boff + c * Brows + (k - 1)]))
        IN  Dot[Acols]]

\* the update added to the stored block
AddUpdate(sx, j, Update) ==
    [q \in DOMAIN sx |->
        IF q >= j * BlockSize /\ q < (j + 1) * BlockSize
          THEN CAdd(sx[q], Update[q - j * BlockSize])
          ELSE sx[q]]

\* lines 538-539
SubtractUpdate(sx, j, Update) ==
    [q \in DOMAIN sx |->
        IF q >= j * BlockSize /\ q < (j + 1) * BlockSize
          THEN CSub(sx[q], Update[q - j * BlockSize])
          ELSE sx[q]]

\* lines 527-540: the loop over the stored blocks j..rowend-1 of block row r
RECURSIVE SCBlockRow(_, _, _, _)
SCBlockRow(sx, r, j, rowend) ==
    IF j >= rowend THEN sx
    ELSE LET C      == gemmOverwrite(BtBinv, r * NullDimSq, NullDim, NullDim,
                                     Bt, Sj[j] * NullDim_Cols, NullDim, ColsPerBlock,
                                     NullDim, ColsPerBlock, "T")
             Update == gemmOverwrite(UB, r * NullDim_Rows, RowsPerBlock, NullDim,
                                     C, 0, NullDim, ColsPerBlock,
                                     RowsPerBlock, ColsPerBlock, "F")
         IN  SCBlockRow(SubtractUpdate(sx, j, Update), r, j + 1, rowend)

\* lines 522-541: one iteration of the loop over the block rows
SCRowStep ==
    /\ pc = "sc_rows"
    /\ i < num_block_rows
    /\ Sx' = SCBlockRow(Sx, i, Sp[i], Sp[i + 1])
    /\ i' = i + 1
    /\ UNCHANGED <<pc, Sp, Sj, Sx_entry, NullDim, ColsPerBlock, scVars>>
    /\ UNCHANGED scIdle

\* lines 522, 542: the loop ends and the kernel returns
SCReturn ==
    /\ pc = "sc_rows"
    /\ i >= num_block_rows
    /\ pc' = "sc_done"
    /\ UNCHANGED <<i, Sp, Sj, Sx, Sx_entry, NullDim, ColsPerBlock, scVars>>
    /\ UNCHANGED scIdle

SCNext == SCRowStep \/ SCReturn

\* the block sizes, numbers of candidates and of block columns a call is made with
SCDims == 1..2

SCInit ==
    /\ pc = "sc_rows"
    /\ i = 0
    /\ SCIdleInit
    /\ \E nr \in 1..SCMaxRows, nc \in SCDims, rpb \in SCDims, cpb \in SCDims, nd \in SCDims :
       \E real \in BOOLEAN, descending \in BOOLEAN :
       \E cols \in [0..(nr - 1) -> SUBSET (0..(nc - 1))] :
          /\ num_block_rows = nr
          /\ RowsPerBlock = rpb
          /\ ColsPerBlock = cpb
          /\ NullDim = nd
          /\ Bt = [q \in 0..(nc * cpb * nd - 1) |-> <<q + 1, IF real THEN 0 ELSE q + 2>>]
          /\ UB = [q \in 0..(nr * rpb * nd - 1) |-> <<q + 2, 1>>]
          /\ BtBinv = [q \in 0..(nr * nd * nd - 1) |-> <<1, q + 1>>]
          /\ Sp = RowPtrOf(GraphRows(cols, nr, descending), nr)
          /\ Sj = ColIdxOf(GraphRows(cols, nr, descending), nr)
          /\ Sx = [q \in 0..(Sp[nr] * rpb * cpb - 1) |-> <<q + 3, q>>]
          /\ Sx_entry = Sx

SpecSC == SCInit /\ [][SCNext]_vars


(***************************************************************************)
(* satisfy_constraints_helper                                              *)
(***************************************************************************)
SCDone == pc = "sc_done"

\* entries of the blocks UB[r], BtBinv[r] and Bconj[c], all row-major
UBAt(r, a, m) == UB[r * NullDim_Rows + a * NullDim + m]
BtBinvAt(r, m, n) == BtBinv[r * NullDimSq + m * NullDim + n]
BconjAt(c, b, n) == Bt[c * NullDim_Cols + b * NullDim + n]

\* entry (a, b) of UB[r] * (BtBinv[r] * M), where entry (n, b) of M is
\* Bconj[c](b, n), conjugated when hermitian is TRUE
RECURSIVE TripleProduct(_, _, _, _, _, _)
TripleProduct(r, c, a, b, hermitian, mn) ==
    IF mn >= NullDimSq THEN CZero
    ELSE LET m    == mn \div NullDim
             n    == mn % NullDim
             last == IF hermitian THEN conjugate(BconjAt(c, b, n)) ELSE BconjAt(c, b, n)
         IN  CAdd(CMul(UBAt(r, a, m), CMul(BtBinvAt(r, m, n), last)),
                  TripleProduct(r, c, a, b, hermitian, mn + 1))

\* every stored block is its value on entry minus the triple product
SCBlocksUpdated(hermitian) ==
    \A r \in 0..(num_block_rows - 1) : \A j \in RangeOf(Sp, r) :
        \A a \in 0..(RowsPerBlock - 1), b \in 0..(ColsPerBlock - 1) :
            LET q == j * BlockSize + a * ColsPerBlock + b
            IN  Sx[q] = CSub(Sx_entry[q], TripleProduct(r, Sj[j], a, b, hermitian, 0))

\* C11 as stated: on return every stored block Sx[j] of block row r is its
\* value on entry minus UB[r] * (BtBinv[r] * Bconj[Sj[j]]^H), the conjugate
\* transpose of the block of the array passed as x.
C11_UpdateWithConjugateTranspose == SCDone => SCBlocksUpdated(TRUE)

\* C11 as the kernel has it: on return every stored block Sx[j] of block
\* row r is its value on entry minus UB[r] * (BtBinv[r] * Bconj[Sj[j]]^T),
\* the plain transpose of the block of the array passed as x; the right
\* side names only UB[r], BtBinv[r], the block of column Sj[j] and the block's
\* own value on entry.
C11_UpdateWithTranspose == SCDone => SCBlocksUpdated(FALSE)

\* the kernel has returned after updating a row of two stored blocks, with
\* two candidates, 2 x 2 blocks and candidate values that are not real
C11_Witness ==
    /\ SCDone
    /\ NullDim = 2
    /\ RowsPerBlock = 2
    /\ ColsPerBlock = 2
    /\ num_block_rows >= 2
    /\ \E q \in DOMAIN Bt : Bt[q][2] # 0
    /\ \E r \in 0..(num_block_rows - 1) :
          /\ Sp[r + 1] - Sp[r] = 2
          /\ \A j \in RangeOf(Sp, r) : Sx[j * BlockSize] # Sx_entry[j * BlockSize]

\* with real candidates the conjugate transpose and the transpose agree
SCRealCandidates ==
    (SCDone /\ \A q \in DOMAIN Bt : Bt[q][2] = 0) => SCBlocksUpdated(TRUE)


(***************************************************************************)
(* standard_aggregation, pass 3                                            *)
(***************************************************************************)
\* pass 3 gives an aggregate only to nodes that passes 1 and 2 left unmarked
Pass3TakesUnmarked ==
    StdDone => \A k \in Nodes : pass3_id[k] # -1 => x_pass2[k] = 0

\* a node marked by pass 1 or 2 ends with the label its mark stands for
Pass12LabelKept ==
    StdDone => \A k \in Nodes : x_pass2[k] # 0 => x[k] = Decode(x_pass2[k])

\* a node given an aggregate in pass 3, as seed or as absorbed neighbour,
\* ends with the id of that aggregate
Pass3LabelKept ==
    StdDone => \A k \in Nodes : pass3_id[k] # -1 => x[k] = pass3_id[k]

\* C12: pass 3 seeds a new aggregate only at a node left unmarked by passes
\* 1 and 2 and absorbs only unmarked neighbours, so a node placed in an
\* aggregate in pass 1, 2 or earlier in pass 3 is never moved to another
\* one, and every node absorbed in pass 3 ends with the id of its seed.
C12_Pass3NeverMovesANode ==
    /\ Pass3TakesUnmarked
    /\ Pass12LabelKept
    /\ Pass3LabelKept


(***************************************************************************)
(* standard_aggregation, the labels of attached and of isolated nodes      *)
(***************************************************************************)
\* a node pass 2 attached to an aggregate: its mark is negative and not the
\* isolated-node mark
Attached(k) == x_pass2[k] < 0 /\ x_pass2[k] # IsolatedMark

\* C13: the aggregates formed in pass 1 number at most n_row/2, so a mark
\* equal to -n_row sits only on a node without neighbours when pass 2 ends,
\* never on an attached node; on return every node that entered pass 3
\* with the isolated-node mark has -1 and every attached node has an
\* aggregate id, not -1.
C13_AttachedLabelIsNotSentinel ==
    /\ pc \in {"pass1", "pass2"} => 2 * (next_aggregate - 1) <= n_row
    /\ pc \in {"pass1", "pass2"} =>
           \A k \in Nodes : x[k] = IsolatedMark => ~has_neighbors(k)
    /\ pc \in {"pass1", "pass2"} =>
           \A k \in Nodes : x[k] # IsolatedMark => (x[k] < n_row /\ -x[k] < n_row)
    /\ StdDone =>
           \A k \in Nodes :
               /\ x_pass2[k] = IsolatedMark => x[k] = -1
               /\ Attached(k) => x[k] >= 0

\* the kernel has returned on three nodes of which one was attached in pass 2
\* to the aggregate of the other two
C13_Witness ==
    /\ StdDone
    /\ n_row = 3
    /\ \E k \in Nodes :
          /\ Attached(k)
          /\ has_neighbors(k)
          /\ x[k] = 0
          /\ \A q \in Nodes \ {k} : x_pass2[q] = 1


(***************************************************************************)
(* standard_aggregation on structurally symmetric graphs                   *)
(***************************************************************************)
\* the aggregates formed in pass 1: the positive marks pass 2 left in x
Pass1Aggregates == {x_pass2[k] : k \in {q \in Nodes : x_pass2[q] > 0}}

\* C14: on a structurally symmetric graph no node is unmarked after pass 2,
\* pass 3 seeds no aggregate, the returned count is the number of
\* aggregates formed in pass 1, and every node with an off-diagonal
\* neighbour ends with x[i] >= 0.
C14_SymmetricNeedsNoPass3 ==
    (StdDone /\ StructurallySymmetric) =>
        /\ \A k \in Nodes : x_pass2[k] # 0
        /\ \A k \in Nodes : pass3_id[k] = -1
        /\ ret = Cardinality(Pass1Aggregates)
        /\ \A k \in Nodes : has_neighbors(k) => x[k] >= 0

\* the kernel has returned on the symmetric path 0 - 2 - 1: pass 1 formed
\* the aggregate of nodes 0 and 2 and pass 2 attached node 1 to it
C14_Witness ==
    /\ StdDone
    /\ StructurallySymmetric
    /\ n_row = 3
    /\ RowCols(0) = {2}
    /\ RowCols(1) = {2}
    /\ ret = 1
    /\ x_pass2[1] = -1
    /\ x[1] = 0

=============================================================================
